---- MODULE Spec2Model ----
(***************************************************************************)
(* Model of Python/tools/manage_gameobject.py: the manage_gameobject tool  *)
(* builds a wire payload from its keyword arguments, applies the prefab    *)
(* path rules, hands the payload to the Unity connection and maps the      *)
(* reply (or any raised exception) to a result dictionary.                 *)
(*                                                                         *)
(* Python values are tagged records [kind, val].  A Python str is a        *)
(* sequence of text fragments: paths, names and host strings are kept      *)
(* character by character, a message literal of the source is one          *)
(* fragment.  A Python dict is a function from its keys to values.         *)
(***************************************************************************)
EXTENDS Integers, Sequences, FiniteSets, TLC

VARIABLES pc, kwargs, inflight, sendCalls, response, result

vars == <<pc, kwargs, inflight, sendCalls, response, result>>

(* ------------------------------ values -------------------------------- *)

None == [kind |-> "none", val |-> <<>>]

Bool(b) == [kind |-> "bool", val |-> b]

Str(s) == [kind |-> "str", val |-> s]

Num(i) == [kind |-> "int", val |-> i]

List(s) == [kind |-> "list", val |-> s]

Dict(d) == [kind |-> "dict", val |-> d]

False == Bool(FALSE)

True == Bool(TRUE)

\* Python truth value of an object (used by `if x`, `not x`).
Truthy(v) ==
    CASE v.kind = "none" -> FALSE
      [] v.kind = "bool" -> v.val
      [] v.kind = "int"  -> v.val # 0
      [] v.kind = "str"  -> Len(v.val) > 0
      [] v.kind = "list" -> Len(v.val) > 0
      [] v.kind = "dict" -> DOMAIN v.val # {}

\* dict.get(key) and dict.get(key, default)
Get(d, k) == IF k \in DOMAIN d THEN d[k] ELSE None

GetOr(d, k, default) == IF k \in DOMAIN d THEN d[k] ELSE default

\* dict.pop(key, None): the mapping without that key
Pop(d, k) == [x \in (DOMAIN d) \ {k} |-> d[x]]

\* d[key] = value on a dict
SetItem(d, k, v) == [x \in (DOMAIN d) \cup {k} |-> IF x = k THEN v ELSE d[x]]

(* ------------------------------ strings ------------------------------- *)

UpperCase == <<"A","B","C","D","E","F","G","H","I","J","K","L","M",
               "N","O","P","Q","R","S","T","U","V","W","X","Y","Z">>

LowerCase == <<"a","b","c","d","e","f","g","h","i","j","k","l","m",
               "n","o","p","q","r","s","t","u","v","w","x","y","z">>

LowerChar(c) ==
    IF \E i \in DOMAIN UpperCase : UpperCase[i] = c
    THEN LowerCase[CHOOSE i \in DOMAIN UpperCase : UpperCase[i] = c]
    ELSE c

\* str.lower()
Lower(s) == [i \in DOMAIN s |-> LowerChar(s[i])]

\* str.endswith(suffix)
EndsWith(s, suffix) ==
    /\ Len(s) >= Len(suffix)
    /\ SubSeq(s, Len(s) - Len(suffix) + 1, Len(s)) = suffix

\* str.replace(old, new) for a one-character old
Replace(s, old, new) == [i \in DOMAIN s |-> IF s[i] = old THEN new ELSE s[i]]

\* the text an f-string inserts for a value: str(v)
Format(v) ==
    CASE v.kind = "none" -> <<"N","o","n","e">>
      [] v.kind = "str"  -> v.val
      [] v.kind = "bool" -> IF v.val THEN <<"T","r","u","e">> ELSE <<"F","a","l","s","e">>
      [] OTHER           -> <<"?">>

DotPrefab == <<".","p","r","e","f","a","b">>

AssetsPrefabs == <<"A","s","s","e","t","s","/","P","r","e","f","a","b","s">>

(* --------------------------- the signature ---------------------------- *)

\* wire key and argument name of every entry of the params literal
Schema == <<
    <<"action", "action">>,
    <<"target", "target">>,
    <<"searchMethod", "search_method">>,
    <<"name", "name">>,
    <<"tag", "tag">>,
    <<"parent", "parent">>,
    <<"position", "position">>,
    <<"rotation", "rotation">>,
    <<"scale", "scale">>,
    <<"componentsToAdd", "components_to_add">>,
    <<"primitiveType", "primitive_type">>,
    <<"saveAsPrefab", "save_as_prefab">>,
    <<"prefabPath", "prefab_path">>,
    <<"prefabFolder", "prefab_folder">>,
    <<"newName", "new_name">>,
    <<"newParent", "new_parent">>,
    <<"setActive", "set_active">>,
    <<"newTag", "new_tag">>,
    <<"newLayer", "new_layer">>,
    <<"componentsToRemove", "components_to_remove">>,
    <<"componentProperties", "component_properties">>,
    <<"searchTerm", "search_term">>,
    <<"findAll", "find_all">>,
    <<"searchInChildren", "search_in_children">>,
    <<"searchInactive", "search_inactive">>,
    <<"componentName", "component_name">> >>

WireKeys == {Schema[i][1] : i \in DOMAIN Schema}

ArgNames == {Schema[i][2] : i \in DOMAIN Schema}

ArgOfKey == [k \in WireKeys |-> Schema[CHOOSE i \in DOMAIN Schema : Schema[i][1] = k][2]]

ArgOf(k) == ArgOfKey[k]

WireNameOfArg == [a \in ArgNames |-> Schema[CHOOSE i \in DOMAIN Schema : Schema[i][2] = a][1]]

WireName(a) == WireNameOfArg[a]

\* the declared default of an optional argument
Default(a) ==
    CASE a = "save_as_prefab"     -> False
      [] a = "prefab_folder"      -> Str(AssetsPrefabs)
      [] a = "find_all"           -> False
      [] a = "search_in_children" -> False
      [] a = "search_inactive"    -> False
      [] OTHER                    -> None

\* the values the function body sees: what the caller passed, else the default
Bind(kw) == [a \in ArgNames |-> IF a \in DOMAIN kw THEN kw[a] ELSE Default(a)]

(* ------------------------- the function body -------------------------- *)

\* lines 67-94: one entry per declared argument, under its wire key
BuildParams(args) == [k \in WireKeys |-> args[ArgOf(k)]]

\* line 95: {k: v for k, v in params.items() if v is not None}
Prune_truthy(p) == [k \in {x \in DOMAIN p : Truthy(p[x])} |-> p[k]]

Prune(p) == [k \in {x \in DOMAIN p : p[x] # None} |-> p[k]]

NameMissingMessage ==
    Str(<<"Cannot create default prefab path: 'name' parameter is missing.">>)

InvalidPathMessage(path) ==
    Str(<<"Invalid prefab_path: '">> \o Format(path) \o <<"' must end with .prefab">>)

Failure(message) == [success |-> False, message |-> message]

\* line 103-105: f"{prefab_folder}/{params['name']}.prefab".replace("\\", "/")
ConstructedPath(prefab_folder, name) ==
    Replace(Format(prefab_folder) \o <<"/">> \o Format(name) \o DotPrefab, "\\", "/")

Create == Str(<<"c","r","e","a","t","e">>)

\* line 98: action == "create" and params.get("saveAsPrefab")
SaveAsPrefabRequested_anyAction(args, params) == Truthy(Get(params, "saveAsPrefab"))

SaveAsPrefabRequested(args, params) ==
    args["action"] = Create /\ Truthy(Get(params, "saveAsPrefab"))

\* line 100: "name" not in params or not params["name"]
NameMissing_presenceOnly(params) == "name" \notin DOMAIN params

NameMissing(params) == "name" \notin DOMAIN params \/ ~Truthy(params["name"])

\* line 106: params["prefabPath"].lower().endswith(".prefab")
HasPrefabExtension_caseSensitive(path) == EndsWith(path.val, DotPrefab)

HasPrefabExtension(path) == EndsWith(Lower(path.val), DotPrefab)

\* lines 98-107: the prefab path rules.  Either the function returns a
\* failure dictionary or it goes on with the (possibly extended) params.
HandlePrefabPath(args, params) ==
    IF SaveAsPrefabRequested(args, params)
    THEN IF "prefabPath" \notin DOMAIN params
         THEN IF NameMissing(params)
              THEN [status |-> "return", params |-> params,
                    value |-> Failure(NameMissingMessage)]
              ELSE [status |-> "continue",
                    params |-> SetItem(params, "prefabPath",
                                  Str(ConstructedPath(args["prefab_folder"], params["name"]))),
                    value |-> <<>>]
         ELSE IF ~HasPrefabExtension(params["prefabPath"])
              THEN [status |-> "return", params |-> params,
                    value |-> Failure(InvalidPathMessage(params["prefabPath"]))]
              ELSE [status |-> "continue", params |-> params, value |-> <<>>]
    ELSE [status |-> "continue", params |-> params, value |-> <<>>]

\* line 110: params.pop("prefab_folder", None)
PopFolder(params) == Pop(params, "prefab_folder")

\* lines 67-116: everything up to the call of send_command
Request(kw) ==
    LET args == Bind(kw)
        h    == HandlePrefabPath(args, Prune(BuildParams(args)))
    IN  IF h.status = "return"
        THEN h
        ELSE [status |-> "send", params |-> PopFolder(h.params), value |-> <<>>]

SuccessDefault == Str(<<"GameObject operation successful.">>)

ErrorDefault == Str(<<"An unknown error occurred during GameObject management.">>)

\* line 121: the result for a reply whose success entry is truthy
SuccessResult_noData(r) ==
    [success |-> True,
     message |-> GetOr(r, "message", SuccessDefault),
     data    |-> None]

SuccessResult(r) ==
    [success |-> True,
     message |-> GetOr(r, "message", SuccessDefault),
     data    |-> Get(r, "data")]

\* line 123: the result for any other reply
FailureResult_fromMessage(r) ==
    [success |-> False,
     message |-> GetOr(r, "message", ErrorDefault)]

FailureResult(r) ==
    [success |-> False,
     message |-> GetOr(r, "error", ErrorDefault)]

\* lines 120-123: the reply of the host as a result dictionary
MapResponse(r) ==
    IF Truthy(Get(r, "success")) THEN SuccessResult(r) ELSE FailureResult(r)

\* what a statement of the body produces: a returned value or a raised exception
Returned(v) == [kind |-> "return", val |-> v]

Raised(detail) == [kind |-> "raise", val |-> detail]

NoAttributeGet == <<"'NoneType' object has no attribute 'get'">>

\* lines 116-123 once the transport has returned r
AfterSend(r) ==
    IF r.kind = "dict" THEN Returned(MapResponse(r.val)) ELSE Raised(NoAttributeGet)

\* lines 62, 125-126: try ... except Exception as e
Catch_propagate(outcome) == outcome

Catch(outcome) ==
    IF outcome.kind = "raise"
    THEN Returned(Failure(Str(<<"Python error managing GameObject: ">> \o outcome.val)))
    ELSE outcome

(* ------------------------------ inputs -------------------------------- *)

MaxExtra == 1

Unsupplied == [kind |-> "unsupplied", val |-> <<>>]

Actions == {Create, Str(<<"m","o","d","i","f","y">>)}

PrefabArgs == {"name", "save_as_prefab", "prefab_path", "prefab_folder"}

PrefabArgOptions(a) ==
    CASE a = "name" ->
           {Unsupplied, Str(<<>>), Str(<<"C","u","b","e">>)}
      [] a = "save_as_prefab" ->
           {Unsupplied, None, False, True}
      [] a = "prefab_path" ->
           {Unsupplied, Str(<<>>),
            Str(<<"A","/","F",".","t","x","t">>),
            Str(<<"A","/","F",".","p","r","e","f","a","b">>),
            Str(<<"A","\\","F",".","P","R","E","F","A","B">>)}
      [] a = "prefab_folder" ->
           {Unsupplied, None, Str(<<"A","\\","C">>)}

PrefabChoices ==
    {c \in [PrefabArgs -> UNION {PrefabArgOptions(a) : a \in PrefabArgs}] :
        \A a \in PrefabArgs : c[a] \in PrefabArgOptions(a)}

OtherArgs == ArgNames \ (PrefabArgs \cup {"action"})

OtherArgValues(a) ==
    CASE a \in {"search_method", "tag", "primitive_type", "new_name", "new_tag",
                "search_term", "component_name"} ->
           {Str(<<>>), Str(<<"x">>)}
      [] a \in {"target", "parent", "new_parent", "new_layer"} ->
           {Num(0), Str(<<"P">>)}
      [] a \in {"position", "rotation", "scale", "components_to_add",
                "components_to_remove"} ->
           {List(<<>>), List(<<Num(1)>>)}
      [] a \in {"set_active", "search_in_children", "search_inactive"} ->
           {False, True}
      [] a = "find_all" ->
           {None, False, True}
      [] a = "component_properties" ->
           {Dict(<<>>), Dict([Rigidbody |-> Dict([mass |-> Num(10)])])}

RECURSIVE ArgSetsUpTo(_)
ArgSetsUpTo(n) ==
    IF n = 0 THEN {{}}
    ELSE LET smaller == ArgSetsUpTo(n - 1)
         IN  smaller \cup {s \cup {a} : s \in smaller, a \in OtherArgs}

OtherKwargs ==
    UNION {{kw \in [s -> UNION {OtherArgValues(a) : a \in s}] :
               \A a \in s : kw[a] \in OtherArgValues(a)} : s \in ArgSetsUpTo(MaxExtra)}

\* the keyword arguments of one call
Kwargs(action, c, other) ==
    [a \in {"action"} \cup {x \in PrefabArgs : c[x] # Unsupplied} \cup DOMAIN other |->
        IF a = "action" THEN action
        ELSE IF a \in PrefabArgs THEN c[a] ELSE other[a]]

HostData == Dict([id |-> Num(5)])

ResponseFieldValues(k) ==
    CASE k = "success" -> {True, False}
      [] k = "message" -> {Str(<<"o","k">>)}
      [] k = "error"   -> {Str(<<"n","o","t"," ","f","o","u","n","d">>)}
      [] k = "data"    -> {HostData}

ResponseKeys == {"success", "message", "error", "data"}

Responses ==
    {None} \cup
    UNION {{Dict(r) : r \in {f \in [s -> UNION {ResponseFieldValues(k) : k \in s}] :
                               \A k \in s : f[k] \in ResponseFieldValues(k)}} :
           s \in SUBSET ResponseKeys}

Faults == {<<"Connection refused">>, <<"timed out">>}

(* --------------------------- the behaviour ---------------------------- *)

Pending == [kind |-> "pending", val |-> <<>>]

NoKwargs == <<>>

Init ==
    /\ pc = "idle"
    /\ kwargs = NoKwargs
    /\ inflight = <<>>
    /\ sendCalls = 0
    /\ response = Pending
    /\ result = Pending

\* the agent calls the tool
Invoke ==
    /\ pc = "idle"
    /\ \E action \in Actions, c \in PrefabChoices, other \in OtherKwargs :
          kwargs' = Kwargs(action, c, other)
    /\ pc' = "called"
    /\ UNCHANGED <<inflight, sendCalls, response, result>>

\* lines 62-116: build the payload; return a local failure or call send_command
Normalize ==
    /\ pc = "called"
    /\ LET q == Request(kwargs)
       IN  IF q.status = "return"
           THEN /\ result' = Catch(Returned(q.value))
                /\ pc' = "done"
                /\ kwargs' = NoKwargs
                /\ UNCHANGED <<inflight, sendCalls>>
           ELSE /\ inflight' = <<[command |-> "manage_gameobject", params |-> q.params]>>
                /\ sendCalls' = sendCalls + 1
                /\ pc' = "sending"
                /\ UNCHANGED <<kwargs, result>>
    /\ UNCHANGED response

\* send_command has taken the command and blocks for the reply of the host;
\* from here on the body reads nothing but the response
Transmit ==
    /\ pc = "sending"
    /\ pc' = "waiting"
    /\ inflight' = <<>>
    /\ kwargs' = NoKwargs
    /\ UNCHANGED <<sendCalls, response, result>>

\* send_command returns r; lines 120-123 map it
TransportReturns ==
    /\ pc = "waiting"
    /\ \E r \in Responses :
          /\ response' = Returned(r)
          /\ result' = Catch(AfterSend(r))
    /\ pc' = "done"
    /\ UNCHANGED <<kwargs, inflight, sendCalls>>

\* get_unity_connection().send_command raises
TransportRaises ==
    /\ pc = "waiting"
    /\ \E d \in Faults :
          /\ response' = Raised(d)
          /\ result' = Catch(Raised(d))
    /\ pc' = "done"
    /\ UNCHANGED <<kwargs, inflight, sendCalls>>

Next == Invoke \/ Normalize \/ Transmit \/ TransportReturns \/ TransportRaises

Spec == Init /\ [][Next]_vars

TypeOK ==
    /\ pc \in {"idle", "called", "sending", "waiting", "done"}
    /\ sendCalls \in 0..1
    /\ Len(inflight) <= 1

(* ------------------------------ claims -------------------------------- *)

\* the payload handed to send_command, while the call is in flight
Payload == inflight[1].params

\* what the caller passed for an argument, None when it passed nothing
Passed(a) == IF a \in DOMAIN kwargs THEN kwargs[a] ELSE None

Modify == Str(<<"m","o","d","i","f","y">>)

\* C1: no payload handed to send_command has a prefab-folder entry, under
\* either spelling of the key.
C1_NoFolderInPayload ==
    \A i \in DOMAIN inflight :
        DOMAIN inflight[i].params \cap {"prefabFolder", "prefab_folder"} = {}

\* C2: the keys of the payload are exactly "action", the wire names of the
\* arguments the caller supplied, and prefabPath when it was derived.
C2_OnlySuppliedKeys ==
    pc = "sending" =>
        DOMAIN Payload =
            {"action"}
            \cup {WireName(a) : a \in {x \in DOMAIN kwargs : kwargs[x] # None}}
            \cup (IF kwargs["action"] = Create /\ Passed("save_as_prefab") = True
                     /\ Passed("prefab_path") = None
                  THEN {"prefabPath"} ELSE {})

C4_MissingNameFailsLocally ==
    [][(/\ pc = "called"
        /\ kwargs["action"] = Create
        /\ Passed("save_as_prefab") = True
        /\ Passed("prefab_path") = None
        /\ Passed("name") \in {None, Str(<<>>)})
       => (/\ pc' = "done"
           /\ result' = Returned(
                 [success |-> False,
                  message |-> Str(<<"Cannot create default prefab path: 'name' parameter is missing.">>)])
           /\ sendCalls' = 0
           /\ inflight' = <<>>)]_vars

C4_Witness ==
    /\ pc = "done"
    /\ sendCalls = 0
    /\ response = Pending
    /\ result.val.message =
          Str(<<"Cannot create default prefab path: 'name' parameter is missing.">>)

\* C5: create with save_as_prefab true and an explicit prefab_path: a path
\* whose lower-cased form does not end with .prefab gives a local failure
\* that quotes the path and the suffix, without any call of send_command; a
\* path that ends with .prefab in any letter case is sent on unchanged.
C5_ExtensionRule ==
    [][(/\ pc = "called"
        /\ kwargs["action"] = Create
        /\ Passed("save_as_prefab") = True
        /\ Passed("prefab_path") # None)
       => IF EndsWith(Lower(kwargs["prefab_path"].val), DotPrefab)
          THEN /\ pc' = "sending"
               /\ inflight'[1].params["prefabPath"] = kwargs["prefab_path"]
          ELSE /\ pc' = "done"
               /\ result' = Returned(
                     [success |-> False,
                      message |-> Str(<<"Invalid prefab_path: '">>
                                      \o kwargs["prefab_path"].val
                                      \o <<"' must end with .prefab">>)])
               /\ sendCalls' = 0
               /\ inflight' = <<>>]_vars

C5_Witness ==
    /\ pc = "sending"
    /\ kwargs["action"] = Create
    /\ Passed("save_as_prefab") = True
    /\ Passed("prefab_path") = Str(<<"A","\\","F",".","P","R","E","F","A","B">>)
    /\ Payload["prefabPath"] = Str(<<"A","\\","F",".","P","R","E","F","A","B">>)

\* C6: create with save_as_prefab true, no prefab_path and a non-empty name
\* sends prefabPath = "{prefab_folder}/{name}.prefab" with every backslash
\* turned into a slash, the folder being Assets/Prefabs when none was
\* supplied or None was passed.
C6_DerivedPath ==
    (/\ pc = "sending"
     /\ kwargs["action"] = Create
     /\ Passed("save_as_prefab") = True
     /\ Passed("prefab_path") = None
     /\ Passed("name") # None
     /\ Len(Passed("name").val) > 0)
    => LET folder == IF Passed("prefab_folder") = None
                     THEN <<"A","s","s","e","t","s","/","P","r","e","f","a","b","s">>
                     ELSE kwargs["prefab_folder"].val
           path   == folder \o <<"/">> \o kwargs["name"].val
                            \o <<".","p","r","e","f","a","b">>
       IN  /\ "prefabPath" \in DOMAIN Payload
           /\ Payload["prefabPath"] =
                 Str([i \in DOMAIN path |-> IF path[i] = "\\" THEN "/" ELSE path[i]])

\* C7: the call never ends by raising; when the transport raised, or the
\* handling of its reply did, the result is the failure dictionary whose
\* message is "Python error managing GameObject: " and the detail.
C7_FaultsBecomeEnvelopes ==
    pc = "done" =>
        /\ result.kind = "return"
        /\ response.kind = "raise" =>
              result.val = [success |-> False,
                            message |-> Str(<<"Python error managing GameObject: ">>
                                            \o response.val)]
        /\ (response.kind = "return" /\ response.val.kind # "dict") =>
              /\ result.val.success = False
              /\ Head(result.val.message.val) = "Python error managing GameObject: "

C7_Witness ==
    /\ pc = "done"
    /\ response = Raised(<<"timed out">>)
    /\ result = Returned([success |-> False,
                          message |-> Str(<<"Python error managing GameObject: ",
                                            "timed out">>)])

\* C8: a reply whose success entry is true gives success true, the host's
\* message (the generic success text when it sent none) and the host's data
\* unchanged when it sent one.
C8_SuccessReply ==
    (/\ pc = "done"
     /\ response.kind = "return"
     /\ response.val.kind = "dict"
     /\ "success" \in DOMAIN response.val.val
     /\ response.val.val["success"] = True)
    => LET r == response.val.val
       IN  /\ result.kind = "return"
           /\ result.val.success = True
           /\ result.val.message =
                 (IF "message" \in DOMAIN r THEN r["message"]
                  ELSE Str(<<"GameObject operation successful.">>))
           /\ "data" \in DOMAIN r => result.val.data = r["data"]

C8_Witness ==
    /\ pc = "done"
    /\ response = Returned(Dict([success |-> True, message |-> Str(<<"o","k">>),
                                 data |-> Dict([id |-> Num(5)])]))
    /\ result = Returned([success |-> True, message |-> Str(<<"o","k">>),
                          data |-> Dict([id |-> Num(5)])])

C10_NoOtherLocalValidation ==
    [][/\ (/\ pc = "called"
           /\ (kwargs["action"] # Create \/ Passed("save_as_prefab") # True))
          => /\ pc' = "sending"
             /\ sendCalls' = 1
             /\ Len(inflight') = 1
             /\ inflight'[1].command = "manage_gameobject"
             /\ "prefabPath" \in DOMAIN inflight'[1].params <=> Passed("prefab_path") # None
             /\ Passed("prefab_path") # None =>
                   inflight'[1].params["prefabPath"] = kwargs["prefab_path"]
       /\ pc # "called" => sendCalls' = sendCalls]_vars

C10_Witness ==
    /\ pc = "sending"
    /\ sendCalls = 1
    /\ kwargs["action"] = Modify
    /\ Passed("save_as_prefab") = True
    /\ "name" \notin DOMAIN kwargs
    /\ Passed("prefab_path") = Str(<<"A","/","F",".","t","x","t">>)
    /\ Payload["prefabPath"] = Str(<<"A","/","F",".","t","x","t">>)

====
